---- MODULE Spec2Model ----
(***************************************************************************)
(* The retrieval-augmented answering pipeline of ChunkyMonkey: multi-      *)
(* strategy retrieval, chunk scoring, context quality classification,      *)
(* quality-based answer generation and answer validation.                  *)
(*                                                                         *)
(* Texts are TLA+ strings and the string operations of the Rust code       *)
(* (to_lowercase, split_whitespace, contains, trim, len) are computed on   *)
(* them; a lowered text is kept as its sequence of characters.  f32 scores  *)
(* are exact rationals in units of 1/Scale; the one f32 effect that is     *)
(* kept is NaN (0.0/0.0) and what f32::min does with it.                   *)
(***************************************************************************)
EXTENDS Integers, Sequences, FiniteSets, TLC

(***************************************************************************)
(* Bounds of the model.                                                    *)
(***************************************************************************)
MaxContextSize == 2
MaxPool == 3
MaxUploads == 3
MaxFetches == 3
MaxCollection == 2
MaxSearches == 2
MaxChainSize == 6
MaxChainId == 4
MaxChunkId == 2
GridSteps == 1000

(* One unit of score is 1/Scale; 600 makes every term of the scorer whole  *)
(* for up to 6 question words, 60 makes the mean of up to 6 scores whole.  *)
Scale == 600 * 60

(***************************************************************************)
(* String operations of the Rust standard library, as the code uses them.  *)
(***************************************************************************)
Min(a, b) == IF a <= b THEN a ELSE b

CharAt(s, i) == SubSeq(s, i, i)

\* str::contains(pattern)
Contains(s, t) ==
    \E i \in 1..(Len(s) - Len(t) + 1) : SubSeq(s, i, i + Len(t) - 1) = t

IsSpace(c) == c \in {" ", "\n", "\t"}

LowerChar(c) ==
    CASE c = "A" -> "a" [] c = "H" -> "h" [] c = "S" -> "s" [] c = "W" -> "w"
      [] OTHER -> c

\* str::to_lowercase; the result is the sequence of the lowered characters.
ToLower(s) == SubSeq([i \in 1..Len(s) |-> LowerChar(CharAt(s, i))], 1, Len(s))

\* The positions where a whitespace-separated word starts.
WordStarts(chars) ==
    {i \in 1..Len(chars) : /\ ~IsSpace(chars[i])
                           /\ (i = 1 \/ IsSpace(chars[i - 1]))}

\* The positions where a whitespace-separated word ends.
WordEnds(chars) ==
    {i \in 1..Len(chars) : /\ ~IsSpace(chars[i])
                           /\ (i = Len(chars) \/ IsSpace(chars[i + 1]))}

\* The k-th smallest member of a set of positions.
Nth(positions, k) ==
    CHOOSE i \in positions : Cardinality({j \in positions : j < i}) = k - 1

\* str::split_whitespace, collected, on a sequence of characters
SplitWhitespace(chars) ==
    LET starts == WordStarts(chars)
        ends == WordEnds(chars)
    IN  [k \in 1..Cardinality(starts) |-> SubSeq(chars, Nth(starts, k), Nth(ends, k))]

\* str::trim
Trim(s) ==
    LET keep == {i \in 1..Len(s) : ~IsSpace(CharAt(s, i))}
    IN  IF keep = {} THEN ""
        ELSE SubSeq(s, CHOOSE i \in keep : \A j \in 1..(i - 1) : j \notin keep,
                       CHOOSE i \in keep : \A j \in (i + 1)..Len(s) : j \notin keep)

(***************************************************************************)
(* Phase 2: score_chunk_relevance.                                         *)
(***************************************************************************)
\* question_lower.split_whitespace().filter(|word| word.len() > 3)
QuestionWords(question) ==
    SelectSeq(SplitWhitespace(ToLower(question)), LAMBDA w : Len(w) > 3)

ContentWords(chunk_content) == SplitWhitespace(ToLower(chunk_content))

InSeq(x, seq) == \E i \in 1..Len(seq) : seq[i] = x

technical_terms == <<"function", "class", "method", "api", "database">>

ExactMatches(chunk_content, question) ==
    LET qw == QuestionWords(question)
        cw == ContentWords(chunk_content)
    IN  Cardinality({i \in 1..Len(qw) : InSeq(qw[i], cw)})

\* Partial matching in one direction only: a chunk word holds the question word.
PartialMatchesOneWay(chunk_content, question) ==
    LET qw == QuestionWords(question)
        cw == ContentWords(chunk_content)
    IN  Cardinality({i \in 1..Len(qw) : \E j \in 1..Len(cw) : Contains(cw[j], qw[i])})

PartialMatches(chunk_content, question) ==
    LET qw == QuestionWords(question)
        cw == ContentWords(chunk_content)
    IN  Cardinality({i \in 1..Len(qw) :
            \E j \in 1..Len(cw) : Contains(cw[j], qw[i]) \/ Contains(qw[i], cw[j])})

TechMatches(chunk_content, question) ==
    Cardinality({k \in 1..Len(technical_terms) :
        /\ Contains(ToLower(question), ToLower(technical_terms[k]))
        /\ Contains(ToLower(chunk_content), ToLower(technical_terms[k]))})

\* The three additive bonuses (steps 4, 5 and 6), each 0.1.
Bonuses(chunk_content, question) ==
    LET content_lower == ToLower(chunk_content)
        content_length == Len(chunk_content)
    IN  (IF \/ Contains(content_lower, ToLower("def "))
             \/ Contains(content_lower, ToLower("fn "))
         THEN Scale \div 10 ELSE 0)
      + (IF content_length > 30 /\ content_length < 500 THEN Scale \div 10 ELSE 0)
      + (IF Contains(ToLower(question), ToLower("how")) /\ content_length > 100
         THEN Scale \div 10 ELSE 0)

\* The f32 that is no number; every score is 0 or more.
NaN == 0 - 1

\* (k as f32 / n as f32) * (num / den); 0.0 / 0.0 is NaN.
Weighted(k, n, num, den) ==
    IF n = 0 THEN NaN ELSE (k * num * Scale) \div (den * n)

\* f32 addition: NaN stays NaN.
FAdd(a, b) == IF a = NaN \/ b = NaN THEN NaN ELSE a + b

\* A minimum that hands NaN on, as f32::minimum does.
MinKeepingNaN(a, b) == IF a = NaN \/ b = NaN THEN NaN ELSE Min(a, b)

\* f32::min: the smaller operand; if one operand is NaN, the other one.
FMin(a, b) == IF a = NaN THEN b ELSE IF b = NaN THEN a ELSE Min(a, b)

\* The score before score.min(1.0).  With no question word both ratios are
\* 0.0/0.0 = NaN and the sum stays NaN.
RawScore(chunk_content, question) ==
    LET n == Len(QuestionWords(question)) IN
    FAdd(FAdd(FAdd(Weighted(ExactMatches(chunk_content, question), n, 1, 2),
                   Weighted(PartialMatches(chunk_content, question), n, 3, 10)),
              Weighted(TechMatches(chunk_content, question), Len(technical_terms), 2, 10)),
         Bonuses(chunk_content, question))

score_chunk_relevance(chunk_content, question) ==
    FMin(RawScore(chunk_content, question), Scale)

(***************************************************************************)
(* The inputs the model draws from.                                        *)
(***************************************************************************)
\* "How does auth work" has three scoring words; "why" has none.
Questions == {"How does auth work", "why"}

\* Chunk texts scoring 0.9, 0.567 and 0.2 against "How does auth work".
Texts == {"auth does work by checking the session token",
          "the authorizer works on tokens and does nothing else here",
          "fn parse returns the parser state"}

ChunkIds == 1..MaxChunkId
\* The raw similarity an index reports is only compared: a lower and a higher one.
Sims == {1, 2}
ContextSizes == 1..MaxContextSize

\* What Generator.generate can return when it returns Ok.
LlmAnswers == {"",
               "Sorry. I couldn't generate a response for this question.",
               "Auth works by checking the session token.",
               "Confidence: Low - the model is unsure how auth does work."}

(***************************************************************************)
(* Phase 2: ContextQuality, and the bundle a retrieval ends with.          *)
(***************************************************************************)
\* Excellent: Score >= 0.8, Good: >= 0.6, Acceptable: >= 0.4, Poor: < 0.4
\* classify with the top band exclusive at 0.8.
classify_strict(aggregateScore) ==
    IF aggregateScore * 10 > 8 * Scale THEN "Excellent"
    ELSE IF aggregateScore * 10 >= 6 * Scale THEN "Good"
    ELSE IF aggregateScore * 10 >= 4 * Scale THEN "Acceptable"
    ELSE "Poor"

classify(aggregateScore) ==
    IF aggregateScore * 10 >= 8 * Scale THEN "Excellent"
    ELSE IF aggregateScore * 10 >= 6 * Scale THEN "Good"
    ELSE IF aggregateScore * 10 >= 4 * Scale THEN "Acceptable"
    ELSE "Poor"

\* score_chunk_relevance on the texts and questions of the model, computed once.
ScoreTable ==
    {<<q, text, score_chunk_relevance(text, q)>> : q \in Questions, text \in Texts}

ScoreOf(text, q) == (CHOOSE row \in ScoreTable : row[1] = q /\ row[2] = text)[3]

\* A raw hit of an index, scored against the original question.
ScoredHit(id, text, similarity, q) ==
    [id |-> id, text |-> text, similarity |-> similarity,
     relevanceScore |-> ScoreOf(text, q)]

\* Deduplication that keeps the entry delivered last.
MergeLatest(sources, hit) ==
    {e \in sources : e.id # hit.id} \cup {hit}

\* Deduplication that keeps the entry delivered first.
MergeFirst(sources, hit) ==
    IF \E e \in sources : e.id = hit.id THEN sources ELSE sources \cup {hit}

\* Deduplication by chunk id: an id already held keeps the entry with the
\* higher relevanceScore.
Merge(sources, hit) ==
    IF \E e \in sources : e.id = hit.id
    THEN LET old == CHOOSE e \in sources : e.id = hit.id
         IN  IF hit.relevanceScore > old.relevanceScore
             THEN (sources \ {old}) \cup {hit}
             ELSE sources
    ELSE sources \cup {hit}

\* An ordering without the similarity tie-break.
BeforeByScoreThenId(a, b) ==
    \/ a.relevanceScore > b.relevanceScore
    \/ /\ a.relevanceScore = b.relevanceScore
       /\ a.id < b.id

\* The ContextBundle ordering rule: descending relevanceScore, then
\* descending similarity, then ascending chunk id.
Before(a, b) ==
    \/ a.relevanceScore > b.relevanceScore
    \/ /\ a.relevanceScore = b.relevanceScore
       /\ a.similarity > b.similarity
    \/ /\ a.relevanceScore = b.relevanceScore
       /\ a.similarity = b.similarity
       /\ a.id < b.id

SortEntries(sources) ==
    [k \in 1..Cardinality(sources) |->
        CHOOSE e \in sources : Cardinality({f \in sources : Before(f, e)}) = k - 1]

\* A truncation that keeps the last n entries.
TruncateTail(seq, n) == SubSeq(seq, Len(seq) - Min(n, Len(seq)) + 1, Len(seq))

Truncate(seq, n) == SubSeq(seq, 1, Min(n, Len(seq)))

RECURSIVE SumScores(_)
SumScores(seq) ==
    IF seq = <<>> THEN 0 ELSE Head(seq).relevanceScore + SumScores(Tail(seq))

\* The score of the best entry instead of the mean.
BestScore(entries) ==
    IF entries = <<>> THEN 0 ELSE entries[1].relevanceScore

\* The arithmetic mean of relevanceScore; the mean of nothing is 0.
AggregateScore(entries) ==
    IF entries = <<>> THEN 0 ELSE SumScores(entries) \div Len(entries)

BuildBundle(sources, size) ==
    LET kept == Truncate(SortEntries(sources), size)
    IN  [entries |-> kept,
         aggregateScore |-> AggregateScore(kept),
         qualityClass |-> classify(AggregateScore(kept))]

RECURSIVE MergeAll(_, _)
\* The working set after the hits of a sequence were merged one after the other.
MergeAll(sources, hits) ==
    IF hits = <<>> THEN sources ELSE MergeAll(Merge(sources, Head(hits)), Tail(hits))

NoBundle == [entries |-> <<>>, aggregateScore |-> 0, qualityClass |-> "Unset"]

(***************************************************************************)
(* Phase 3: strategy selection and the three generation strategies.        *)
(***************************************************************************)
\* A selection that sends Good to Standard.
SelectGoodAsStandard(qualityClass) ==
    CASE qualityClass = "Excellent" -> "Advanced"
      [] qualityClass \in {"Good", "Acceptable"} -> "Standard"
      [] OTHER -> "Fallback"

SelectStrategy(qualityClass) ==
    CASE qualityClass \in {"Excellent", "Good"} -> "Advanced"
      [] qualityClass = "Acceptable" -> "Standard"
      [] OTHER -> "Fallback"

RECURSIVE JoinContext(_)
\* The context text handed to the generators: each entry of the bundle under
\* a "Source:" line naming its chunk.
JoinContext(entries) ==
    IF entries = <<>> THEN ""
    ELSE "Source: chunk " \o ToString(Head(entries).id) \o "\n"
         \o Head(entries).text \o "\n\n" \o JoinContext(Tail(entries))

IsNewline(c) == c = "\n"

LineStarts(s) ==
    {i \in 1..Len(s) : /\ ~IsNewline(CharAt(s, i))
                       /\ (i = 1 \/ IsNewline(CharAt(s, i - 1)))}

LineEnds(s) ==
    {i \in 1..Len(s) : /\ ~IsNewline(CharAt(s, i))
                       /\ (i = Len(s) \/ IsNewline(CharAt(s, i + 1)))}

\* The non-empty lines of a text, in order.
Lines(s) ==
    LET starts == LineStarts(s)
        ends == LineEnds(s)
    IN  [k \in 1..Cardinality(starts) |-> SubSeq(s, Nth(starts, k), Nth(ends, k))]

RECURSIVE JoinLines(_)
JoinLines(seq) ==
    IF seq = <<>> THEN ""
    ELSE IF Len(seq) = 1 THEN Head(seq)
    ELSE Head(seq) \o "\n" \o JoinLines(Tail(seq))

\* The lines of the context, "Source:" lines apart, that hold a question word.
extract_key_information(context, question) ==
    LET qw == QuestionWords(question)
        holds(line) == /\ ~Contains(line, "Source:")
                       /\ LET lower == ToLower(line)
                          IN  \E i \in 1..Len(qw) : Contains(lower, qw[i])
    IN  JoinLines(SelectSeq(Lines(context), holds))

\* A Standard strategy that formats whatever was extracted, even nothing.
standard_without_empty_check(question, context) ==
    "Based on the indexed documents, here's what I found:\n\n"
    \o extract_key_information(context, question)

\* A Standard strategy that hands over to the Fallback text when nothing was
\* extracted.
standard_handing_to_fallback(question, context) ==
    LET key_info == extract_key_information(context, question)
    IN  IF key_info = ""
        THEN "I don't have enough specific information to provide a detailed answer. "
             \o "However, this appears to be a semantic search and RAG system.\n\n"
             \o "To get better answers, consider:\n"
             \o "1. Indexing more documentation about the topic\n"
             \o "2. Using more specific search terms\n"
             \o "3. Checking if the documents are properly indexed\n\n"
             \o (IF Trim(context) # "" THEN "Available context (limited):\n" ELSE "")
        ELSE "Based on the indexed documents, here's what I found:\n\n" \o key_info

generate_standard_rag_response(question, context) ==
    LET key_info == extract_key_information(context, question)
    IN  IF key_info = ""
        THEN "Based on the available information, I couldn't find specific details to answer your question. Consider rephrasing or indexing more relevant documents."
        ELSE "Based on the indexed documents, here's what I found:\n\n" \o key_info

\* A Fallback strategy that always opens the context section.
fallback_always_with_context(question, context) ==
    "I don't have enough specific information to provide a detailed answer. "
    \o "However, this appears to be a semantic search and RAG system.\n\n"
    \o "To get better answers, consider:\n"
    \o "1. Indexing more documentation about the topic\n"
    \o "2. Using more specific search terms\n"
    \o "3. Checking if the documents are properly indexed\n\n"
    \o "Available context (limited):\n"

generate_fallback_response(question, context) ==
    "I don't have enough specific information to provide a detailed answer. "
    \o "However, this appears to be a semantic search and RAG system.\n\n"
    \o "To get better answers, consider:\n"
    \o "1. Indexing more documentation about the topic\n"
    \o "2. Using more specific search terms\n"
    \o "3. Checking if the documents are properly indexed\n\n"
    \o (IF Trim(context) # "" THEN "Available context (limited):\n" ELSE "")

\* An outcome of llm_client.generate_answer: [ok |-> TRUE, text |-> t] or
\* [ok |-> FALSE, text |-> ""] for Err.  NoCall is the value held while no
\* call was made.
LlmOutcomes ==
    {[ok |-> TRUE, text |-> t] : t \in LlmAnswers} \cup {[ok |-> FALSE, text |-> ""]}

NoCall == [ok |-> FALSE, text |-> "no call"]

\* generate_advanced_rag_response without the sentinel test.
advanced_ignoring_sentinel(question, context, has_llm, outcome) ==
    IF has_llm /\ outcome.ok /\ outcome.text # ""
    THEN outcome.text
    ELSE generate_standard_rag_response(question, context)

\* generate_advanced_rag_response without the test for an empty text.
advanced_accepting_empty(question, context, has_llm, outcome) ==
    IF has_llm /\ outcome.ok /\ ~Contains(outcome.text, "I couldn't generate a response")
    THEN outcome.text
    ELSE generate_standard_rag_response(question, context)

\* Whether generate_advanced_rag_response returns the generator's text.
LlmAnswerUsable(outcome) ==
    /\ outcome.ok
    /\ outcome.text # ""
    /\ ~Contains(outcome.text, "I couldn't generate a response")

\* generate_advanced_rag_response once the generator (if any) has answered.
generate_advanced_rag_response(question, context, has_llm, outcome) ==
    IF has_llm /\ LlmAnswerUsable(outcome)
    THEN outcome.text
    ELSE generate_standard_rag_response(question, context)

(***************************************************************************)
(* Phase 4: validate_and_enhance_answer.                                   *)
(***************************************************************************)
\* A labelling that reads Good as Moderate.
ConfidenceGoodAsModerate(quality) ==
    CASE quality = "Excellent" ->
           "\n\nConfidence: High - Based on comprehensive and relevant information."
      [] quality \in {"Good", "Acceptable"} ->
           "\n\nConfidence: Moderate - Based on limited but relevant information."
      [] OTHER ->
           "\n\nConfidence: Low - Limited relevant information available."

ConfidenceSentence(quality) ==
    CASE quality = "Excellent" ->
           "\n\nConfidence: High - Based on comprehensive and relevant information."
      [] quality = "Good" ->
           "\n\nConfidence: Good - Based on relevant information with some gaps."
      [] quality = "Acceptable" ->
           "\n\nConfidence: Moderate - Based on limited but relevant information."
      [] OTHER ->
           "\n\nConfidence: Low - Limited relevant information available."

\* f32 comparison: false when an operand is NaN.
FGreater(a, b) == a # NaN /\ b # NaN /\ a > b

\* coverage > 0.5: more than half of the question's words of more than 3
\* characters occur in the answer; with no such word coverage is NaN.
answer_addresses_question(answer_text, question) ==
    LET question_words == QuestionWords(question)
        answer_lower == ToLower(answer_text)
        addressed_words ==
            Cardinality({i \in 1..Len(question_words) :
                            Contains(answer_lower, question_words[i])})
        coverage == Weighted(addressed_words, Len(question_words), 1, 1)
    IN  FGreater(coverage, Scale \div 2)

\* A validation that returns no text for an answer that fails the coverage test.
validate_gated_by_coverage(answer_text, question, context, quality, confidence_on, attribution_on) ==
    IF answer_addresses_question(answer_text, question)
    THEN answer_text
         \o (IF confidence_on THEN ConfidenceSentence(quality) ELSE "")
         \o (IF attribution_on /\ ~Contains(context, "Source:")
             THEN "\n\nNote: Source information not available for this answer."
             ELSE "")
    ELSE ""

\* A validation that adds the note when the context does name a source.
validate_inverted_attribution(answer_text, question, context, quality, confidence_on, attribution_on) ==
    answer_text
    \o (IF confidence_on THEN ConfidenceSentence(quality) ELSE "")
    \o (IF attribution_on /\ Contains(context, "Source:")
        THEN "\n\nNote: Source information not available for this answer."
        ELSE "")

validate_and_enhance_answer(answer_text, question, context, quality, confidence_on, attribution_on) ==
    answer_text
    \o (IF confidence_on THEN ConfidenceSentence(quality) ELSE "")
    \o (IF attribution_on /\ ~Contains(context, "Source:")
        THEN "\n\nNote: Source information not available for this answer."
        ELSE "")

\* The sources of an Answer: the chunk ids of the bundle it was built from.
AnswerSources(entries) ==
    SubSeq([i \in 1..Len(entries) |-> entries[i].id], 1, Len(entries))

(***************************************************************************)
(* One pipeline invocation.                                                *)
(***************************************************************************)
VARIABLES
    query,                      \* the question asked
    context_size,               \* how many chunks the caller wants
    pinecone_client,            \* TRUE: Some(client), FALSE: None
    llm_client,                 \* TRUE: Some(client), FALSE: None
    enable_confidence_scoring,  \* config.rag.enable_confidence_scoring
    enable_source_attribution,  \* config.rag.enable_source_attribution
    pc,                         \* where the invocation stands
    requested,                  \* how many hits the call in progress asked for
    received,                   \* how many hits it has delivered so far
    all_sources,                \* the working set, one entry per chunk id
    max_seen,                   \* history: per chunk id the best score delivered
    bundle,                     \* the ContextBundle the retrieval returned
    strategies_run,             \* the generation strategies run, in order
    llm_outcome,                \* what the generator call returned
    llm_calls,                  \* how many generator calls were made
    draft,                      \* the answer text before validation
    answer,                     \* the answer text returned
    answer_sources,             \* the chunk ids the answer cites
    result,                     \* "none", "Ok" or "Err": what the caller gets
    failed,                     \* history: the retrieval call that returned Err
    dup_seen,                   \* history: a chunk id came again with another score
    probe_in,                   \* the score handed to classify on its own
    probe_out,                  \* the class it returned
    pool,                       \* hits delivered to a merge in no fixed order
    merge_order,                \* history: the order in which they were merged
    inv,                        \* invocations that run side by side, each with its own locals
    isUploading,                \* Upload: useState(false)
    uploads,                    \* Upload: the calls of handleFileUpload made so far
    collectionId,               \* Projection: the prop, 0 while Home holds null
    points,                     \* Projection: the collection whose points are displayed
    isLoading,                  \* Projection: useState(false)
    error,                      \* Projection: TRUE when an error message is set
    fetches,                    \* Projection: the calls of fetchProjection made so far
    typed,                      \* QueryPanel / RAGPanel: query, the text in the input
    results,                    \* QueryPanel: results, RAGPanel: result
    isSearching,                \* QueryPanel: isSearching, RAGPanel: isProcessing
    searches                    \* QueryPanel / RAGPanel: the requests sent so far

vars == <<query, context_size, pinecone_client, llm_client,
          enable_confidence_scoring, enable_source_attribution, pc, requested,
          received, all_sources, max_seen, bundle, strategies_run, llm_outcome,
          llm_calls, draft, answer, answer_sources, result, failed, dup_seen, probe_in, probe_out,
          pool, merge_order, inv,
          isUploading, uploads, collectionId, points, isLoading, error, fetches,
          typed, results, isSearching, searches>>

upload_state == <<isUploading, uploads>>
projection_state == <<collectionId, points, isLoading, error, fetches>>
panel_state == <<typed, results, isSearching, searches>>
frontend == <<upload_state, projection_state, panel_state>>

Panels == {"QueryPanel", "RAGPanel"}

\* The components as they are mounted: nothing uploaded, fetched or searched.
FrontendIdle ==
    /\ isUploading = FALSE
    /\ uploads = <<>>
    /\ collectionId = 0
    /\ points = 0
    /\ isLoading = FALSE
    /\ error = FALSE
    /\ fetches = <<>>
    /\ typed = [p \in Panels |-> ""]
    /\ results = [p \in Panels |-> 0]
    /\ isSearching = [p \in Panels |-> FALSE]
    /\ searches = [p \in Panels |-> <<>>]

config == <<query, context_size, pinecone_client, llm_client,
            enable_confidence_scoring, enable_source_attribution>>

probe == <<probe_in, probe_out>>

delivery == <<pool, merge_order>>

generation == <<strategies_run, llm_outcome, llm_calls, draft>>

bundle_context == JoinContext(bundle.entries)

Init ==
    /\ query \in Questions
    /\ context_size \in ContextSizes
    /\ pinecone_client \in BOOLEAN
    /\ llm_client \in BOOLEAN
    /\ enable_confidence_scoring \in BOOLEAN
    /\ enable_source_attribution \in BOOLEAN
    /\ pc = "primary"
    /\ requested = context_size * 2
    /\ received = 0
    /\ all_sources = {}
    /\ max_seen = [id \in ChunkIds |-> -1]
    /\ bundle = NoBundle
    /\ strategies_run = <<>>
    /\ FrontendIdle
    /\ llm_outcome = NoCall
    /\ llm_calls = 0
    /\ draft = ""
    /\ answer = ""
    /\ answer_sources = <<>>
    /\ result = "none"
    /\ failed = "none"
    /\ dup_seen = FALSE
    /\ probe_in = 0
    /\ probe_out = "Unset"
    /\ pool = {}
    /\ merge_order = <<>>
    /\ inv = <<>>

\* One hit of the call in progress is scored and merged into the working set.
TakeHit(id, text, similarity) ==
    LET hit == ScoredHit(id, text, similarity, query)
    IN  /\ received < requested
        /\ all_sources' = Merge(all_sources, hit)
        /\ max_seen' = [max_seen EXCEPT ![id] =
                            IF hit.relevanceScore > @ THEN hit.relevanceScore ELSE @]
        /\ dup_seen' = (dup_seen \/ (max_seen[id] >= 0 /\ max_seen[id] # hit.relevanceScore))
        /\ received' = received + 1
        /\ UNCHANGED <<config, frontend, pc, requested, bundle, generation, answer, answer_sources, result,
                       failed, probe, delivery, inv>>

\* The "?" after a failed call: the error is returned to the caller.
Propagate(strategy) ==
    /\ received = 0
    /\ pc' = "done"
    /\ result' = "Err"
    /\ failed' = strategy
    /\ UNCHANGED <<config, frontend, requested, received, all_sources, max_seen, bundle,
                   generation, answer, answer_sources, dup_seen, probe, delivery, inv>>

StartCall(next_pc, k) ==
    /\ pc' = next_pc
    /\ requested' = k
    /\ received' = 0
    /\ UNCHANGED <<config, frontend, all_sources, max_seen, bundle, generation, answer, answer_sources, result,
                   failed, dup_seen, probe, delivery, inv>>

\* The retrieval is over: the working set is sorted, truncated and classified;
\* no call is in progress any more.
ReturnBundle ==
    /\ bundle' = BuildBundle(all_sources, context_size)
    /\ pc' = "generate"
    /\ requested' = 0
    /\ received' = 0
    /\ UNCHANGED <<config, frontend, all_sources, max_seen,
                   generation, answer, answer_sources, result, failed, dup_seen, probe, delivery, inv>>

\* Strategy 1: if let Some(ref pinecone) = self.pinecone_client
PrimaryUnconfigured ==
    /\ pc = "primary"
    /\ ~pinecone_client
    /\ StartCall("local", context_size)

\* pinecone.query_similar(question_vector, context_size * 2).await?
PrimaryError ==
    /\ pc = "primary"
    /\ pinecone_client
    /\ Propagate("Primary")

PrimaryMatch ==
    /\ pc = "primary"
    /\ pinecone_client
    /\ \E id \in ChunkIds, text \in Texts, similarity \in Sims :
           TakeHit(id, text, similarity)

PrimaryEnd ==
    /\ pc = "primary"
    /\ pinecone_client
    /\ StartCall("local", context_size)

\* Strategy 2: self.rag_engine.search_relevant_chunks(...)?
LocalError ==
    /\ pc = "local"
    /\ Propagate("LocalFallback")

LocalResult ==
    /\ pc = "local"
    /\ \E id \in ChunkIds, text \in Texts, similarity \in Sims :
           TakeHit(id, text, similarity)

\* Strategy 3 asking for the whole context size, whatever was already found.
ExpandForFullSize ==
    /\ pc = "local"
    /\ Cardinality(all_sources) < context_size \div 2
    /\ StartCall("expansion", context_size)

\* Strategy 3: if all_sources.len() < context_size / 2
LocalEndExpand ==
    /\ pc = "local"
    /\ Cardinality(all_sources) < context_size \div 2
    /\ StartCall("expansion", context_size - Cardinality(all_sources))

LocalEndReturn ==
    /\ pc = "local"
    /\ ~(Cardinality(all_sources) < context_size \div 2)
    /\ ReturnBundle

\* self.semantic_expansion(question, question_vector, ...).await?
ExpansionError ==
    /\ pc = "expansion"
    /\ Propagate("SemanticExpansion")

ExpansionResult ==
    /\ pc = "expansion"
    /\ \E id \in ChunkIds, text \in Texts, similarity \in Sims :
           TakeHit(id, text, similarity)

ExpansionEnd ==
    /\ pc = "expansion"
    /\ ReturnBundle

Generated(run, outcome, calls, text) ==
    /\ strategies_run' = run
    /\ llm_outcome' = outcome
    /\ llm_calls' = calls
    /\ draft' = text
    /\ pc' = "validate"
    /\ UNCHANGED <<config, frontend, requested, received, all_sources, max_seen, bundle,
                   answer, answer_sources, result, failed, dup_seen, probe, delivery, inv>>

\* Advanced asking the generator a second time after an unusable reply.
AdvancedRetrying ==
    /\ pc = "generate"
    /\ SelectStrategy(bundle.qualityClass) = "Advanced"
    /\ llm_client
    /\ \E outcome \in LlmOutcomes :
           Generated(IF LlmAnswerUsable(outcome) THEN <<"Advanced">>
                     ELSE <<"Advanced", "Standard">>,
                     outcome,
                     IF LlmAnswerUsable(outcome) THEN llm_calls + 1 ELSE llm_calls + 2,
                     generate_advanced_rag_response(query, bundle_context, TRUE, outcome))

\* Strategy A with a generator client: llm_client.generate_answer(...).await
AdvancedWithLlm ==
    /\ pc = "generate"
    /\ SelectStrategy(bundle.qualityClass) = "Advanced"
    /\ llm_client
    /\ \E outcome \in LlmOutcomes :
           Generated(IF LlmAnswerUsable(outcome) THEN <<"Advanced">>
                     ELSE <<"Advanced", "Standard">>,
                     outcome, llm_calls + 1,
                     generate_advanced_rag_response(query, bundle_context, TRUE, outcome))

\* Strategy A with self.llm_client = None
AdvancedNoLlm ==
    /\ pc = "generate"
    /\ SelectStrategy(bundle.qualityClass) = "Advanced"
    /\ ~llm_client
    /\ Generated(<<"Advanced", "Standard">>, NoCall, llm_calls,
                 generate_advanced_rag_response(query, bundle_context, FALSE, NoCall))

GenerateStandard ==
    /\ pc = "generate"
    /\ SelectStrategy(bundle.qualityClass) = "Standard"
    /\ Generated(<<"Standard">>, NoCall, llm_calls,
                 generate_standard_rag_response(query, bundle_context))

GenerateFallback ==
    /\ pc = "generate"
    /\ SelectStrategy(bundle.qualityClass) = "Fallback"
    /\ Generated(<<"Fallback">>, NoCall, llm_calls,
                 generate_fallback_response(query, bundle_context))

Validate ==
    /\ pc = "validate"
    /\ answer' = validate_and_enhance_answer(draft, query, bundle_context,
                     bundle.qualityClass,
                     enable_confidence_scoring, enable_source_attribution)
    /\ answer_sources' = AnswerSources(bundle.entries)
    /\ pc' = "done"
    /\ result' = "Ok"
    /\ UNCHANGED <<config, frontend, requested, received, all_sources, max_seen, bundle,
                   generation, failed, dup_seen, probe, delivery, inv>>

Next ==
    \/ PrimaryUnconfigured \/ PrimaryError \/ PrimaryMatch \/ PrimaryEnd
    \/ LocalError \/ LocalResult \/ LocalEndExpand \/ LocalEndReturn
    \/ ExpansionError \/ ExpansionResult \/ ExpansionEnd
    \/ AdvancedWithLlm \/ AdvancedNoLlm \/ GenerateStandard \/ GenerateFallback
    \/ Validate

Spec == Init /\ [][Next]_vars

TypeOK ==
    /\ pc \in {"primary", "local", "expansion", "generate", "validate", "done"}
    /\ result \in {"none", "Ok", "Err"}
    /\ received \in 0..requested
    /\ failed \in {"none", "Primary", "LocalFallback", "SemanticExpansion"}

(***************************************************************************)
(* classify on its own: every score of a grid over [0,1] is classified.    *)
(***************************************************************************)
ScoreGrid == {(m * Scale) \div GridSteps : m \in 0..GridSteps}
            \cup {(m * Scale) \div 1000 : m \in {0, 399, 400, 599, 600, 799, 800, 1000}}

InitClassify ==
    /\ query = "why"
    /\ context_size = 1
    /\ pinecone_client = FALSE
    /\ llm_client = FALSE
    /\ enable_confidence_scoring = TRUE
    /\ enable_source_attribution = TRUE
    /\ pc = "classify"
    /\ requested = 0
    /\ received = 0
    /\ all_sources = {}
    /\ max_seen = [id \in ChunkIds |-> -1]
    /\ bundle = NoBundle
    /\ strategies_run = <<>>
    /\ FrontendIdle
    /\ llm_outcome = NoCall
    /\ llm_calls = 0
    /\ draft = ""
    /\ answer = ""
    /\ answer_sources = <<>>
    /\ result = "none"
    /\ failed = "none"
    /\ dup_seen = FALSE
    /\ probe_in \in ScoreGrid
    /\ probe_out = "Unset"
    /\ pool = {}
    /\ merge_order = <<>>
    /\ inv = <<>>

Classify ==
    /\ pc = "classify"
    /\ probe_out' = classify(probe_in)
    /\ pc' = "classified"
    /\ UNCHANGED <<config, frontend, requested, received, all_sources, max_seen, bundle,
                   generation, answer, answer_sources, result, failed, dup_seen, probe_in, delivery, inv>>

NextClassify == Classify

SpecClassify == InitClassify /\ [][NextClassify]_vars

\* An invocation, once started, runs to its end: each step is taken when its
\* turn comes.
FairSpec == Spec /\ WF_vars(Next)

(***************************************************************************)
(* Properties.                                                             *)
(***************************************************************************)
Returned == pc \in {"generate", "validate", "done"} /\ bundle.qualityClass # "Unset"

Generated_ == pc \in {"validate", "done"} /\ strategies_run # <<>>

\* C1: every pipeline invocation eventually returns an Answer and never
\* surfaces an error to the caller, whatever the collaborators do.
C1_AlwaysAnswers == <>(pc = "done" /\ result = "Ok") /\ [](result # "Err")

\* C2: a retrieval call that errors is treated like one that returned
\* nothing: the step in which it errors goes on to the next strategy or to
\* the returned bundle, and no error leaves retrieve.
C2_ErrorIsZeroResults ==
    [][failed' # failed =>
         /\ pc' \in {"local", "expansion", "generate"}
         /\ result' # "Err"]_vars

\* C3: when Advanced was selected and the generator call errored or returned
\* the "could not answer" sentinel, the text before validation is exactly the
\* Standard strategy's text for the same question and bundle, and no error is
\* returned.
C3_GeneratorFailureDegrades ==
    (/\ Generated_
     /\ strategies_run[1] = "Advanced"
     /\ llm_calls = 1
     /\ \/ ~llm_outcome.ok
        \/ Contains(llm_outcome.text, "I couldn't generate a response"))
    => /\ draft = generate_standard_rag_response(query, bundle_context)
       /\ result # "Err"

C3_Witness ==
    /\ pc = "done"
    /\ result = "Ok"
    /\ strategies_run = <<"Advanced", "Standard">>
    /\ llm_calls = 1
    /\ llm_outcome.ok
    /\ Contains(llm_outcome.text, "I couldn't generate a response")
    /\ Len(bundle.entries) > 0
    /\ draft # llm_outcome.text

\* C4: classify gives every score of [0,1] exactly one class, with bands that
\* include their lower end: Excellent from 0.8, Good from 0.6 to below 0.8,
\* Acceptable from 0.4 to below 0.6, Poor below 0.4; 0.0 and 0.399 are Poor,
\* 0.4 and 0.599 Acceptable, 0.6 and 0.799 Good, 0.8 and 1.0 Excellent.
C4_ClassifyBands ==
    pc = "classified" =>
        /\ probe_out \in {"Excellent", "Good", "Acceptable", "Poor"}
        /\ (probe_out = "Excellent") <=> (probe_in * 10 >= 8 * Scale)
        /\ (probe_out = "Good") <=>
               (probe_in * 10 >= 6 * Scale /\ probe_in * 10 < 8 * Scale)
        /\ (probe_out = "Acceptable") <=>
               (probe_in * 10 >= 4 * Scale /\ probe_in * 10 < 6 * Scale)
        /\ (probe_out = "Poor") <=> (probe_in * 10 < 4 * Scale)
        /\ probe_in \in {0, (399 * Scale) \div 1000} => probe_out = "Poor"
        /\ probe_in \in {(400 * Scale) \div 1000, (599 * Scale) \div 1000}
               => probe_out = "Acceptable"
        /\ probe_in \in {(600 * Scale) \div 1000, (799 * Scale) \div 1000}
               => probe_out = "Good"
        /\ probe_in \in {(800 * Scale) \div 1000, Scale} => probe_out = "Excellent"

C4_Witness ==
    /\ pc = "classified"
    /\ probe_in = (800 * Scale) \div 1000
    /\ probe_out = "Excellent"

C6_NoDuplicateKeepsHighest ==
    Returned =>
        /\ \A i, j \in 1..Len(bundle.entries) :
               i # j => bundle.entries[i].id # bundle.entries[j].id
        /\ \A i \in 1..Len(bundle.entries) :
               bundle.entries[i].relevanceScore = max_seen[bundle.entries[i].id]

C6_Witness ==
    /\ Returned
    /\ dup_seen
    /\ Len(bundle.entries) > 0
    /\ Len(bundle.entries) = Cardinality(all_sources)

\* C7: in a returned bundle the entries come by non-increasing relevanceScore,
\* entries of equal score by non-increasing similarity, and entries equal in
\* both by ascending chunk id.
C7_BundleOrdering ==
    Returned =>
        \A i, j \in 1..Len(bundle.entries) :
            i < j =>
                LET a == bundle.entries[i]
                    b == bundle.entries[j]
                IN  /\ a.relevanceScore >= b.relevanceScore
                    /\ a.relevanceScore = b.relevanceScore
                           => a.similarity >= b.similarity
                    /\ (a.relevanceScore = b.relevanceScore
                           /\ a.similarity = b.similarity) => a.id < b.id

C7_Witness ==
    /\ Returned
    /\ Len(bundle.entries) = 2
    /\ bundle.entries[1].relevanceScore = bundle.entries[2].relevanceScore
    /\ bundle.entries[1].similarity > bundle.entries[2].similarity
    /\ bundle.entries[1].id > bundle.entries[2].id

\* C8: a returned bundle holds at most contextSize entries, and they are the
\* first contextSize entries of the merged, deduplicated, sorted working set:
\* no entry left out ranks before an entry kept.
C8_TruncatedToBest ==
    Returned =>
        LET kept == {bundle.entries[i] : i \in 1..Len(bundle.entries)}
        IN  /\ Len(bundle.entries) <= context_size
            /\ Len(bundle.entries) = Min(context_size, Cardinality(all_sources))
            /\ Cardinality(kept) = Len(bundle.entries)
            /\ kept \subseteq all_sources
            /\ \A d \in all_sources \ kept, k \in kept :
                   \/ k.relevanceScore > d.relevanceScore
                   \/ /\ k.relevanceScore = d.relevanceScore
                      /\ k.similarity > d.similarity
                   \/ /\ k.relevanceScore = d.relevanceScore
                      /\ k.similarity = d.similarity
                      /\ k.id < d.id

C8_Witness ==
    /\ Returned
    /\ Cardinality(all_sources) > context_size
    /\ Len(bundle.entries) = context_size
    /\ \E d \in all_sources :
           d.relevanceScore < bundle.entries[Len(bundle.entries)].relevanceScore

\* C9: a returned bundle's aggregateScore is the arithmetic mean of the
\* relevanceScore of the entries kept, 0 for an empty bundle, within [0,1],
\* and its qualityClass is classify of that aggregateScore.
C9_AggregateIsMean ==
    Returned =>
        LET n == Len(bundle.entries)
            total[i \in 0..n] ==
                IF i = 0 THEN 0 ELSE total[i - 1] + bundle.entries[i].relevanceScore
        IN  /\ n = 0 => bundle.aggregateScore = 0
            /\ n > 0 => /\ n * bundle.aggregateScore <= total[n]
                        /\ total[n] < n * (bundle.aggregateScore + 1)
            /\ bundle.aggregateScore \in 0..Scale
            /\ bundle.qualityClass = classify(bundle.aggregateScore)

C9_Witness ==
    /\ Returned
    /\ Len(bundle.entries) = 2
    /\ bundle.entries[1].relevanceScore > bundle.entries[2].relevanceScore
    /\ bundle.aggregateScore < bundle.entries[1].relevanceScore
    /\ bundle.aggregateScore > bundle.entries[2].relevanceScore

C9_EmptyWitness ==
    /\ Returned
    /\ Len(bundle.entries) = 0
    /\ bundle.aggregateScore = 0
    /\ bundle.qualityClass = "Poor"

\* The label word the bundle's class fixes.
ExpectedLabel ==
    CASE bundle.qualityClass = "Excellent" -> "High"
      [] bundle.qualityClass = "Good" -> "Good"
      [] bundle.qualityClass = "Acceptable" -> "Moderate"
      [] bundle.qualityClass = "Poor" -> "Low"

\* What validation added after the text it was given.
Appended == SubSeq(answer, Len(draft) + 1, Len(answer))

\* The appended text opens with the class's label and holds no other label.
LabelCarried ==
    LET marker == "\n\nConfidence: " \o ExpectedLabel \o " - "
    IN  /\ Len(Appended) >= Len(marker)
        /\ SubSeq(Appended, 1, Len(marker)) = marker
        /\ Cardinality({i \in 1..Len(Appended) :
               SubSeq(Appended, i, Min(i + 11, Len(Appended))) = "Confidence: "}) = 1

\* C10 as stated: every Answer returned carries exactly the confidence label
\* its bundle's class fixes; the label is always present.
C10_LabelAlwaysPresent ==
    (pc = "done" /\ result = "Ok") => LabelCarried

\* C10: with confidence scoring enabled, every Answer returned carries
\* exactly the label its bundle's class fixes (Excellent High, Good Good,
\* Acceptable Moderate, Poor Low), whatever the generator returned and also
\* when Advanced degraded to Standard; with it disabled no label is added.
C10_LabelWhenScoringEnabled ==
    (pc = "done" /\ result = "Ok") =>
        /\ SubSeq(answer, 1, Len(draft)) = draft
        /\ enable_confidence_scoring => LabelCarried
        /\ ~enable_confidence_scoring => ~Contains(Appended, "Confidence: ")

C10_Witness ==
    /\ pc = "done"
    /\ result = "Ok"
    /\ enable_confidence_scoring
    /\ strategies_run = <<"Advanced", "Standard">>
    /\ llm_calls = 1
    /\ bundle.qualityClass = "Good"
    /\ Contains(Appended, "Confidence: Good - ")

\* The chunk ids of the returned bundle.
BundleIds == {bundle.entries[i].id : i \in 1..Len(bundle.entries)}

\* The answer text says that no source attribution is available.
StatesNoSources == Contains(Appended, "Source information not available")

C12_EmptyContextFallback ==
    (pc = "done" /\ all_sources = {}) =>
        /\ result = "Ok"
        /\ bundle.entries = <<>>
        /\ bundle.aggregateScore = 0
        /\ bundle.qualityClass = "Poor"
        /\ strategies_run = <<"Fallback">>
        /\ llm_calls = 0
        /\ Contains(answer, "1. Indexing more documentation about the topic")
        /\ Contains(answer, "2. Using more specific search terms")
        /\ Contains(answer, "3. Checking if the documents are properly indexed")
        /\ Contains(answer, "Confidence: Low")

(***************************************************************************)
(* The merge on its own: a pool of hits, delivered by strategies that run  *)
(* concurrently, is merged in whatever order the hits arrive.              *)
(***************************************************************************)
MergeQuery == "How does auth work"

MergeTexts == {"auth does work by checking the session token",
               "the authorizer works on tokens and does nothing else here"}

MergeHits ==
    {ScoredHit(id, text, similarity, MergeQuery) :
        id \in ChunkIds, text \in MergeTexts, similarity \in Sims}

Pools == {hits \in SUBSET MergeHits : Cardinality(hits) <= MaxPool}

InitMerge ==
    /\ query = MergeQuery
    /\ context_size \in ContextSizes
    /\ pinecone_client = TRUE
    /\ llm_client = FALSE
    /\ enable_confidence_scoring = TRUE
    /\ enable_source_attribution = TRUE
    /\ pc = "merging"
    /\ requested = 0
    /\ received = 0
    /\ all_sources = {}
    /\ max_seen = [id \in ChunkIds |-> -1]
    /\ bundle = NoBundle
    /\ strategies_run = <<>>
    /\ FrontendIdle
    /\ llm_outcome = NoCall
    /\ llm_calls = 0
    /\ draft = ""
    /\ answer = ""
    /\ answer_sources = <<>>
    /\ result = "none"
    /\ failed = "none"
    /\ dup_seen = FALSE
    /\ probe_in = 0
    /\ probe_out = "Unset"
    /\ pool \in Pools
    /\ merge_order = <<>>
    /\ inv = <<>>

Arrived == {merge_order[i] : i \in 1..Len(merge_order)}

\* The hit that arrives next, whichever it is, is merged into the working set.
MergeNext ==
    /\ pc = "merging"
    /\ \E hit \in pool \ Arrived :
           /\ all_sources' = Merge(all_sources, hit)
           /\ merge_order' = Append(merge_order, hit)
    /\ UNCHANGED <<config, frontend, pc, requested, received, max_seen, bundle, generation,
                   answer, answer_sources, result, failed, dup_seen, probe, pool, inv>>

\* Every hit has arrived: the bundle is built from the working set.
MergeDone ==
    /\ pc = "merging"
    /\ Arrived = pool
    /\ bundle' = BuildBundle(all_sources, context_size)
    /\ pc' = "merged"
    /\ UNCHANGED <<config, frontend, requested, received, all_sources, max_seen, generation,
                   answer, answer_sources, result, failed, dup_seen, probe, delivery, inv>>

NextMerge == MergeNext \/ MergeDone

SpecMerge == InitMerge /\ [][NextMerge]_vars

\* The bundle of the same hits merged one strategy after the other, in the
\* order of the bundle's ordering rule.
SequentialBundle ==
    BuildBundle(MergeAll({}, SortEntries(pool)), context_size)

\* Two hits of the pool have one chunk id and one relevanceScore and still differ.
TieInPool ==
    \E g, h \in pool : g # h /\ g.id = h.id /\ g.relevanceScore = h.relevanceScore

Invocations == {1, 2}

\* The index contents the clients serve, the same for every invocation.
PairPools ==
    {{},
     {ScoredHit(1, "auth does work by checking the session token", 2, MergeQuery)},
     {ScoredHit(1, "auth does work by checking the session token", 2, MergeQuery),
      ScoredHit(2, "the authorizer works on tokens and does nothing else here", 1,
                MergeQuery)}}

\* What the generator client answers.
GeneratorReply == [ok |-> TRUE, text |-> "Auth works by checking the session token."]

\* The hits of the index, scored against the question of the invocation.
ScoredPool(hits, question) ==
    SortEntries({ScoredHit(h.id, h.text, h.similarity, question) : h \in hits})

\* A working set shared by the invocations, as a field of self would be.
SharedSources(invs, i) == UNION {invs[j].all_sources : j \in DOMAIN invs}

\* all_sources as invocation i reads it: its own local.
OwnSources(invs, i) == invs[i].all_sources

\* The text of the strategy the bundle's class selects.
DraftFor(question, b, has_llm) ==
    LET ctx == JoinContext(b.entries)
        strategy == SelectStrategy(b.qualityClass)
    IN  IF strategy = "Advanced"
        THEN generate_advanced_rag_response(question, ctx, has_llm, GeneratorReply)
        ELSE IF strategy = "Standard"
        THEN generate_standard_rag_response(question, ctx)
        ELSE generate_fallback_response(question, ctx)

InitPair ==
    /\ query = MergeQuery
    /\ context_size = 1
    /\ pinecone_client = TRUE
    /\ llm_client \in BOOLEAN
    /\ enable_confidence_scoring = TRUE
    /\ enable_source_attribution = TRUE
    /\ pc = "pair"
    /\ requested = 0
    /\ received = 0
    /\ all_sources = {}
    /\ max_seen = [id \in ChunkIds |-> -1]
    /\ bundle = NoBundle
    /\ strategies_run = <<>>
    /\ FrontendIdle
    /\ llm_outcome = NoCall
    /\ llm_calls = 0
    /\ draft = ""
    /\ answer = ""
    /\ answer_sources = <<>>
    /\ result = "none"
    /\ failed = "none"
    /\ dup_seen = FALSE
    /\ probe_in = 0
    /\ probe_out = "Unset"
    /\ pool \in PairPools
    /\ merge_order = <<>>
    /\ inv \in [Invocations ->
                  {[question |-> q, size |-> n, at |-> "retrieve", all_sources |-> {},
                    bundle |-> NoBundle, draft |-> "", answer |-> ""] :
                       q \in Questions, n \in ContextSizes}]

PairFrame ==
    UNCHANGED <<config, frontend, pc, requested, received, all_sources, max_seen, bundle,
                generation, answer, answer_sources, result, failed, dup_seen, probe,
                delivery>>

PairRetrieve(i) ==
    /\ inv[i].at = "retrieve"
    /\ inv' = [inv EXCEPT
                 ![i].all_sources =
                     MergeAll(OwnSources(inv, i), ScoredPool(pool, inv[i].question)),
                 ![i].at = "assemble"]
    /\ PairFrame

PairAssemble(i) ==
    /\ inv[i].at = "assemble"
    /\ inv' = [inv EXCEPT
                 ![i].bundle = BuildBundle(OwnSources(inv, i), inv[i].size),
                 ![i].at = "generate"]
    /\ PairFrame

PairGenerate(i) ==
    /\ inv[i].at = "generate"
    /\ inv' = [inv EXCEPT
                 ![i].draft = DraftFor(inv[i].question, inv[i].bundle, llm_client),
                 ![i].at = "validate"]
    /\ PairFrame

PairValidate(i) ==
    /\ inv[i].at = "validate"
    /\ inv' = [inv EXCEPT
                 ![i].answer =
                     validate_and_enhance_answer(inv[i].draft, inv[i].question,
                         JoinContext(inv[i].bundle.entries), inv[i].bundle.qualityClass,
                         enable_confidence_scoring, enable_source_attribution),
                 ![i].at = "done"]
    /\ PairFrame

NextPair ==
    \E i \in Invocations :
        \/ PairRetrieve(i)
        \/ PairAssemble(i)
        \/ PairGenerate(i)
        \/ PairValidate(i)

SpecPair == InitPair /\ [][NextPair]_vars

\* The Answer of an invocation that runs alone against the same clients.
AnswerAlone(question, size) ==
    LET b == BuildBundle(MergeAll({}, ScoredPool(pool, question)), size)
    IN  validate_and_enhance_answer(DraftFor(question, b, llm_client), question,
            JoinContext(b.entries), b.qualityClass,
            enable_confidence_scoring, enable_source_attribution)

ScoreQuestions ==
    {"", "   ", "why", "how", "How does auth work", "authentication",
     "what is the database api method", "which config method",
     "how function class method api database"}

ScoreChunks ==
    {"", "auth", "fn ", "how does auth work",
     "auth does work by checking the session token",
     "the authorizer works on tokens and does nothing else here",
     "fn parse returns the parser state", "the config method reads the file",
     "fn how function class method api database are used together in one long chunk of text about it all"
        \o " and more"}

InitScore ==
    /\ query = MergeQuery
    /\ context_size = 1
    /\ pinecone_client = FALSE
    /\ llm_client = FALSE
    /\ enable_confidence_scoring = TRUE
    /\ enable_source_attribution = TRUE
    /\ pc = "score"
    /\ requested = 0
    /\ received = 0
    /\ all_sources = {}
    /\ max_seen = [id \in ChunkIds |-> -1]
    /\ bundle = NoBundle
    /\ strategies_run = <<>>
    /\ FrontendIdle
    /\ llm_outcome = NoCall
    /\ llm_calls = 0
    /\ draft = ""
    /\ answer = ""
    /\ answer_sources = <<>>
    /\ result = "none"
    /\ failed = "none"
    /\ dup_seen = FALSE
    /\ probe_in \in ScoreChunks \X ScoreQuestions
    /\ probe_out = "Unset"
    /\ pool = {}
    /\ merge_order = <<>>
    /\ inv = <<>>

Score ==
    /\ pc = "score"
    /\ probe_out' = score_chunk_relevance(probe_in[1], probe_in[2])
    /\ pc' = "scored"
    /\ UNCHANGED <<config, frontend, requested, received, all_sources, max_seen, bundle,
                   generation, answer, answer_sources, result, failed, dup_seen,
                   probe_in, delivery, inv>>

NextScore == Score

SpecScore == InitScore /\ [][NextScore]_vars

\* C15: for every chunk text and every question, the empty question, the
\* empty chunk and inputs to which every sub-score and bonus applies
\* included, the score is a number from 0 to 1.
C15_ScoreInUnitInterval ==
    pc = "scored" => (probe_out # NaN /\ probe_out \in 0..Scale)

C15_Witness ==
    /\ pc = "scored"
    /\ probe_in[2] = ""
    /\ probe_in[1] = ""
    /\ probe_out = Scale

C15_AllBonusesWitness ==
    /\ pc = "scored"
    /\ RawScore(probe_in[1], probe_in[2]) = (13 * Scale) \div 10
    /\ probe_out = Scale

\* The Standard strategy produced the text before validation.
StandardRan ==
    Generated_ /\ strategies_run[Len(strategies_run)] = "Standard"

\* C16: the Standard strategy never returns an empty text and never fails:
\* with nothing extracted from the context it returns the "couldn't find
\* specific details" message, otherwise what it extracted after "Based on
\* the indexed documents, here's what I found:".  The text is compared in
\* the state the strategy leaves, before validation appends to the answer.
C16_StandardNeverEmpty ==
    /\ StandardRan => (draft # "" /\ result # "Err")
    /\ (StandardRan /\ pc = "validate") =>
        LET key_info == extract_key_information(bundle_context, query)
        IN  /\ key_info = "" =>
                   draft = "Based on the available information, I couldn't find specific details to answer your question. Consider rephrasing or indexing more relevant documents."
            /\ key_info # "" =>
                   draft = "Based on the indexed documents, here's what I found:\n\n"
                           \o key_info

C16_Witness ==
    /\ StandardRan
    /\ pc = "done"
    /\ result = "Ok"
    /\ Len(bundle.entries) > 0
    /\ extract_key_information(bundle_context, query) = ""
    /\ Contains(draft, "I couldn't find specific details")

C16_ExtractedWitness ==
    /\ StandardRan
    /\ strategies_run = <<"Standard">>
    /\ extract_key_information(bundle_context, query) # ""
    /\ Contains(draft, "here's what I found:\n\nauth does work")

\* C17: the Fallback strategy's text holds the "Available context (limited)"
\* section if and only if the bundle is not empty; for an empty bundle it is
\* the low-information statement and the three suggestions, nothing else.
C17_FallbackContextSection ==
    (Generated_ /\ strategies_run = <<"Fallback">>) =>
        /\ Contains(draft, "Available context (limited):") <=> Len(bundle.entries) > 0
        /\ Len(bundle.entries) = 0 =>
               draft = "I don't have enough specific information to provide a detailed answer. "
                       \o "However, this appears to be a semantic search and RAG system.\n\n"
                       \o "To get better answers, consider:\n"
                       \o "1. Indexing more documentation about the topic\n"
                       \o "2. Using more specific search terms\n"
                       \o "3. Checking if the documents are properly indexed\n\n"

C17_Witness ==
    /\ Generated_
    /\ strategies_run = <<"Fallback">>
    /\ Len(bundle.entries) > 0
    /\ Contains(draft, "Available context (limited):")

C17_EmptyWitness ==
    /\ Generated_
    /\ strategies_run = <<"Fallback">>
    /\ Len(bundle.entries) = 0
    /\ ~Contains(draft, "Available context")

\* The Low sentence validation appends for a Poor bundle.
LowSentence == "\n\nConfidence: Low - Limited relevant information available."

\* The note validation appends when the context names no source.
SourceNote == "\n\nNote: Source information not available for this answer."

\* The answer returned opens with the text validation was given.
DraftKept == Len(answer) >= Len(draft) /\ SubSeq(answer, 1, Len(draft)) = draft

\* C18 as stated: validation returns an Answer for every input, a question
\* with no word of more than 3 characters included; the coverage test never
\* blocks the answer or changes its text; in the worst case the result is
\* the unmodified Fallback text plus the Low label.
C18_ValidateWorstCaseLow ==
    (pc = "done" /\ strategies_run # <<>>) =>
        /\ result = "Ok"
        /\ answer_addresses_question(draft, query) \in BOOLEAN
        /\ DraftKept
        /\ strategies_run = <<"Fallback">> =>
               Appended \in {LowSentence, LowSentence \o SourceNote}

\* C18: validation returns an Answer for every input, a question with no
\* word of more than 3 characters included (the coverage test is then
\* false); the coverage test never blocks the answer or changes its text;
\* in the worst case the result is the unmodified Fallback text, plus the
\* Low sentence when confidence scoring is enabled, plus the source note
\* when source attribution is enabled and the bundle is empty.
C18_ValidateNeverBlocks ==
    (pc = "done" /\ strategies_run # <<>>) =>
        /\ result = "Ok"
        /\ answer_addresses_question(draft, query) \in BOOLEAN
        /\ Len(QuestionWords(query)) = 0 => ~answer_addresses_question(draft, query)
        /\ DraftKept
        /\ strategies_run = <<"Fallback">> =>
               Appended = (IF enable_confidence_scoring THEN LowSentence ELSE "")
                          \o (IF enable_source_attribution /\ Len(bundle.entries) = 0
                              THEN SourceNote ELSE "")

C18_Witness ==
    /\ pc = "done"
    /\ result = "Ok"
    /\ Len(QuestionWords(query)) = 0
    /\ ~answer_addresses_question(draft, query)
    /\ answer # ""
    /\ DraftKept

C18_WorstCaseWitness ==
    /\ pc = "done"
    /\ strategies_run = <<"Fallback">>
    /\ Len(QuestionWords(query)) > 0
    /\ ~answer_addresses_question(draft, query)
    /\ enable_confidence_scoring
    /\ answer = draft \o LowSentence \o SourceNote

C18_CoveredWitness ==
    /\ pc = "done"
    /\ answer_addresses_question(draft, query)

(***************************************************************************)
(* The chain of retrieval calls on its own, for larger context sizes: a    *)
(* call delivers its hits at once and only their number matters.           *)
(***************************************************************************)
ChainIds == 1..MaxChainId

ChainHits(ids) ==
    {ScoredHit(id, "auth does work by checking the session token", 1, MergeQuery) :
        id \in ids}

InitChain ==
    /\ query = MergeQuery
    /\ context_size \in 1..MaxChainSize
    /\ pinecone_client \in BOOLEAN
    /\ llm_client = FALSE
    /\ enable_confidence_scoring = TRUE
    /\ enable_source_attribution = TRUE
    /\ pc = "primary"
    /\ requested = context_size * 2
    /\ received = 0
    /\ all_sources = {}
    /\ max_seen = [id \in ChunkIds |-> -1]
    /\ bundle = NoBundle
    /\ strategies_run = <<>>
    /\ FrontendIdle
    /\ llm_outcome = NoCall
    /\ llm_calls = 0
    /\ draft = ""
    /\ answer = ""
    /\ answer_sources = <<>>
    /\ result = "none"
    /\ failed = "none"
    /\ dup_seen = FALSE
    /\ probe_in = 0
    /\ probe_out = "Unset"
    /\ pool = {}
    /\ merge_order = <<>>
    /\ inv = <<>>

\* The call in progress returns the chunks of ids, all of them at once.
TakeBatch(ids) ==
    /\ received = 0
    /\ ids # {}
    /\ Cardinality(ids) <= requested
    /\ all_sources' = MergeAll(all_sources, SortEntries(ChainHits(ids)))
    /\ received' = Cardinality(ids)
    /\ UNCHANGED <<config, frontend, pc, requested, max_seen, bundle, generation, answer,
                   answer_sources, result, failed, dup_seen, probe, delivery, inv>>

PrimaryBatch ==
    /\ pc = "primary"
    /\ pinecone_client
    /\ \E ids \in SUBSET ChainIds : TakeBatch(ids)

LocalBatch ==
    /\ pc = "local"
    /\ \E ids \in SUBSET ChainIds : TakeBatch(ids)

ExpansionBatch ==
    /\ pc = "expansion"
    /\ \E ids \in SUBSET ChainIds : TakeBatch(ids)

NextChain ==
    \/ PrimaryUnconfigured \/ PrimaryError \/ PrimaryBatch \/ PrimaryEnd
    \/ LocalError \/ LocalBatch \/ LocalEndExpand \/ LocalEndReturn
    \/ ExpansionError \/ ExpansionBatch \/ ExpansionEnd

SpecChain == InitChain /\ [][NextChain]_vars

\* C19 as stated: the local strategy is queried exactly when the number of
\* unique results after the primary strategy (0 when it is unconfigured or
\* errored) is below the context size.
C19_LocalIffUnderDelivered ==
    [][(pc = "primary" /\ pc' # "primary") =>
           ((pc' = "local") <=> (Cardinality(all_sources) < context_size))]_vars

\* C20: expansion starts only from the local strategy's end, hence after the
\* primary and the local strategy were attempted or skipped, only when the
\* unique count is strictly below half the context size, and it asks for at
\* most the context size minus that count.
C20_ExpansionOnlyWhenUnderHalf ==
    [][(pc # "expansion" /\ pc' = "expansion") =>
           /\ pc = "local"
           /\ 2 * Cardinality(all_sources) < context_size
           /\ requested' <= context_size - Cardinality(all_sources)
           /\ all_sources' = all_sources]_vars

\* Expansion was just entered with something already found.
C20_Witness ==
    /\ pc = "expansion"
    /\ received = 0
    /\ Cardinality(all_sources) > 0
    /\ requested = context_size - Cardinality(all_sources)

(***************************************************************************)
(* Generation and validation on their own: the invocation starts where a   *)
(* retrieval has returned its bundle.                                      *)
(***************************************************************************)
\* The working sets a retrieval can end with: for every chunk id no entry or
\* one entry, of any of the texts.
AnswerPools(question) ==
    {{ScoredHit(id, held[id], 1, question) : id \in {i \in ChunkIds : held[i] # ""}} :
        held \in [ChunkIds -> Texts \cup {""}]}

InitAnswer ==
    /\ query \in Questions
    /\ context_size \in ContextSizes
    /\ pinecone_client = TRUE
    /\ llm_client \in BOOLEAN
    /\ enable_confidence_scoring \in BOOLEAN
    /\ enable_source_attribution \in BOOLEAN
    /\ pc = "generate"
    /\ requested = 0
    /\ received = 0
    /\ all_sources \in AnswerPools(query)
    /\ max_seen = [id \in ChunkIds |->
                      IF \E e \in all_sources : e.id = id
                      THEN (CHOOSE e \in all_sources : e.id = id).relevanceScore
                      ELSE -1]
    /\ bundle = BuildBundle(all_sources, context_size)
    /\ strategies_run = <<>>
    /\ FrontendIdle
    /\ llm_outcome = NoCall
    /\ llm_calls = 0
    /\ draft = ""
    /\ answer = ""
    /\ answer_sources = <<>>
    /\ result = "none"
    /\ failed = "none"
    /\ dup_seen = FALSE
    /\ probe_in = 0
    /\ probe_out = "Unset"
    /\ pool = {}
    /\ merge_order = <<>>
    /\ inv = <<>>

NextAnswer ==
    \/ AdvancedWithLlm \/ AdvancedNoLlm \/ GenerateStandard \/ GenerateFallback
    \/ Validate

SpecAnswer == InitAnswer /\ [][NextAnswer]_vars

\* C21: the generator is called at most once in an invocation, and only for a
\* bundle classified Excellent or Good (and with a client configured); an
\* invocation whose bundle is Acceptable or Poor completes without any call.
C21_GeneratorAtMostOnce ==
    /\ llm_calls <= 1
    /\ llm_calls = 1 => (bundle.qualityClass \in {"Excellent", "Good"} /\ llm_client)
    /\ llm_calls = 0 <=> llm_outcome = NoCall
    /\ (pc = "done" /\ bundle.qualityClass \in {"Acceptable", "Poor"}) =>
           (result = "Ok" /\ llm_calls = 0)

\* A Good bundle whose generator call failed: one call, none after degrading.
C21_Witness ==
    /\ pc = "done"
    /\ result = "Ok"
    /\ bundle.qualityClass = "Good"
    /\ llm_calls = 1
    /\ ~llm_outcome.ok
    /\ strategies_run = <<"Advanced", "Standard">>

C21_NoCallWitness ==
    /\ pc = "done"
    /\ llm_client
    /\ bundle.qualityClass = "Acceptable"
    /\ llm_calls = 0

\* The sequences of generation strategies one invocation can run.
StrategyRuns ==
    {<<>>, <<"Advanced">>, <<"Advanced", "Standard">>, <<"Standard">>, <<"Fallback">>}

\* C22: degradation is one level only.  An invocation runs at most two
\* strategies; after a failed Advanced attempt, and whenever Standard runs,
\* the text is Standard's own, never the Fallback text, also when Standard
\* extracted nothing; and once a strategy has produced the text no other
\* strategy runs and the text is not replaced.
C22_OneLevelDegradation ==
    /\ [](/\ strategies_run \in StrategyRuns
          /\ StandardRan =>
                 /\ draft # generate_fallback_response(query, bundle_context)
                 /\ ~Contains(draft, "I don't have enough specific information")
                 /\ strategies_run = <<"Advanced", "Standard">> =>
                        (llm_calls <= 1 /\ draft # llm_outcome.text))
    /\ [][strategies_run # <<>> => UNCHANGED <<strategies_run, draft, llm_calls>>]_vars

\* Advanced failed, Standard took over and found nothing to extract.
C22_Witness ==
    /\ pc = "done"
    /\ result = "Ok"
    /\ strategies_run = <<"Advanced", "Standard">>
    /\ Len(bundle.entries) > 0
    /\ extract_key_information(bundle_context, query) = ""
    /\ Contains(draft, "I couldn't find specific details")

\* The score as the specification words it, over a vocabulary of domain
\* terms: E and P over the question's tokens longer than 3 characters, D over
\* the vocabulary, S, L and Q of 0.1 each, the sum clamped to [0,1].
ClaimedScore(chunk_text, question_text, vocabulary) ==
    LET tokens == SelectSeq(SplitWhitespace(ToLower(question_text)), LAMBDA w : Len(w) > 3)
        chunk_tokens == SplitWhitespace(ToLower(chunk_text))
        found == {i \in 1..Len(tokens) : \E j \in 1..Len(chunk_tokens) : chunk_tokens[j] = tokens[i]}
        near == {i \in 1..Len(tokens) :
                    \E j \in 1..Len(chunk_tokens) :
                        \/ Contains(chunk_tokens[j], tokens[i])
                        \/ Contains(tokens[i], chunk_tokens[j])}
        shared == {k \in 1..Len(vocabulary) :
                      /\ Contains(ToLower(question_text), vocabulary[k])
                      /\ Contains(ToLower(chunk_text), vocabulary[k])}
        E == (5 * Cardinality(found) * Scale) \div (10 * Len(tokens))
        P == (3 * Cardinality(near) * Scale) \div (10 * Len(tokens))
        D == (2 * Cardinality(shared) * Scale) \div (10 * Len(vocabulary))
        S == IF Contains(ToLower(chunk_text), "def ") \/ Contains(ToLower(chunk_text), "fn ")
             THEN Scale \div 10 ELSE 0
        L == IF Len(chunk_text) > 30 /\ Len(chunk_text) < 500 THEN Scale \div 10 ELSE 0
        Q == IF Contains(ToLower(question_text), "how") /\ Len(chunk_text) > 100
             THEN Scale \div 10 ELSE 0
        sum == E + P + D + S + L + Q
    IN  IF sum < 0 THEN 0 ELSE IF sum > Scale THEN Scale ELSE sum

\* The question of the scored pair has a token that counts.
ScoredWithTokens ==
    pc = "scored" /\ Len(QuestionWords(probe_in[2])) > 0

C23_PartialWitness ==
    /\ ScoredWithTokens
    /\ probe_in = <<"auth", "authentication">>
    /\ probe_out = (3 * Scale) \div 10

\* C24 as stated: for a question without a token longer than 3 characters both
\* ratios count as 0, so the score is the domain term plus the bonuses that
\* apply; for the empty chunk text the score is a number and holds no bonus,
\* which leaves 0 as nothing of the empty text matches.
C24_ZeroRatiosForNoTokens ==
    /\ (pc = "scored" /\ Len(QuestionWords(probe_in[2])) = 0) =>
           /\ probe_out # NaN
           /\ probe_out = Min(Scale,
                              Weighted(TechMatches(probe_in[1], probe_in[2]),
                                       Len(technical_terms), 2, 10)
                              + Bonuses(probe_in[1], probe_in[2]))
    /\ (pc = "scored" /\ probe_in[1] = "") =>
           (probe_out # NaN /\ probe_out = 0)

\* C25: when Advanced is selected and no generator client is configured, or
\* the generator returns the empty string, the text is exactly the Standard
\* strategy's text for the same question and bundle; without a client no
\* generator call is made.
C25_NoClientOrEmptyDegrades ==
    (/\ Generated_
     /\ strategies_run[1] = "Advanced"
     /\ ~llm_client \/ (llm_outcome.ok /\ llm_outcome.text = ""))
    => /\ draft = generate_standard_rag_response(query, bundle_context)
       /\ draft # ""
       /\ strategies_run = <<"Advanced", "Standard">>
       /\ ~llm_client => (llm_calls = 0 /\ llm_outcome = NoCall)

\* The generator answered with the empty string.
C25_Witness ==
    /\ pc = "done"
    /\ result = "Ok"
    /\ strategies_run[1] = "Advanced"
    /\ llm_client
    /\ llm_calls = 1
    /\ llm_outcome.ok
    /\ llm_outcome.text = ""
    /\ Contains(draft, "here's what I found")

C25_NoClientWitness ==
    /\ pc = "done"
    /\ strategies_run[1] = "Advanced"
    /\ ~llm_client
    /\ llm_calls = 0
    /\ Len(bundle.entries) > 0

\* C26 as stated: when the primary and the local strategy have ended without
\* an error and left no unique result, semantic expansion is attempted,
\* whatever the context size from 1 on.
C26_ExpansionWhenNothingFound ==
    [][(/\ pc = "local"
        /\ pc' # "local"
        /\ failed' = "none"
        /\ all_sources = {}
        /\ context_size >= 1)
       => pc' = "expansion"]_vars

(***************************************************************************)
(* The web frontend.  The pipeline is not running while its components are *)
(* exercised.                                                              *)
(***************************************************************************)
PipelineIdle ==
    /\ query = ""
    /\ context_size = 1
    /\ pinecone_client = FALSE
    /\ llm_client = FALSE
    /\ enable_confidence_scoring = TRUE
    /\ enable_source_attribution = TRUE
    /\ pc = "idle"
    /\ requested = 0
    /\ received = 0
    /\ all_sources = {}
    /\ max_seen = [id \in ChunkIds |-> -1]
    /\ bundle = NoBundle
    /\ strategies_run = <<>>
    /\ llm_outcome = NoCall
    /\ llm_calls = 0
    /\ draft = ""
    /\ answer = ""
    /\ answer_sources = <<>>
    /\ result = "none"
    /\ failed = "none"
    /\ dup_seen = FALSE
    /\ probe_in = 0
    /\ probe_out = "Unset"
    /\ pool = {}
    /\ merge_order = <<>>
    /\ inv = <<>>

pipeline == <<config, pc, requested, received, all_sources, max_seen, bundle,
              generation, answer, answer_sources, result, failed, dup_seen,
              probe, delivery, inv>>

\* String.prototype.endsWith
EndsWith(s, suffix) ==
    Len(s) >= Len(suffix) /\ SubSeq(s, Len(s) - Len(suffix) + 1, Len(s)) = suffix

(***************************************************************************)
(* The Upload component.                                                   *)
(***************************************************************************)
\* The names of the files a user picks or drops.
FileNames == {"notes.txt", "notes.pdf", "NOTES.TXT", "txt"}

\* The calls of handleFileUpload whose request has not been answered to the
\* end: fetch is pending, or the body of an OK response is being read.
UploadsInFlight == {i \in 1..Len(uploads) : uploads[i].phase \in {"fetching", "parsing"}}

InitUpload == PipelineIdle /\ FrontendIdle

\* handleFileUpload(file) up to its first await: a file that is not a .txt is
\* refused with an alert, otherwise isUploading is set and the request sent.
handleFileUpload(via, name) ==
    /\ Len(uploads) < MaxUploads
    /\ IF ~EndsWith(name, ".txt")
       THEN /\ uploads' = Append(uploads, [via |-> via, name |-> name,
                                            phase |-> "refused", ok |-> FALSE,
                                            thrown |-> "", onDone |-> 0])
            /\ UNCHANGED isUploading
       ELSE /\ uploads' = Append(uploads, [via |-> via, name |-> name,
                                            phase |-> "fetching", ok |-> FALSE,
                                            thrown |-> "", onDone |-> 0])
            /\ isUploading' = TRUE
    /\ UNCHANGED <<pipeline, projection_state, panel_state>>

\* onChange of the file input, which is rendered with disabled={isUploading}
handleFileInput ==
    /\ ~isUploading
    /\ \E name \in FileNames : handleFileUpload("input", name)

\* onDrop of the drop zone
handleDrop ==
    \E name \in FileNames : handleFileUpload("drop", name)

\* The end of a call that clears isUploading only after a success, as a
\* handler without the finally block would.
UploadEndsWithoutFinally(i, phase, thrown, calls) ==
    /\ uploads' = [uploads EXCEPT ![i] = [@ EXCEPT !.phase = phase, !.thrown = thrown,
                                                    !.onDone = @ + calls]]
    /\ isUploading' = (IF thrown = "" THEN FALSE ELSE isUploading)
    /\ UNCHANGED <<pipeline, projection_state, panel_state>>

\* The call ends: the catch block, if something was thrown, and the finally
\* block have run.
UploadEnds(i, phase, thrown, calls) ==
    /\ uploads' = [uploads EXCEPT ![i] = [@ EXCEPT !.phase = phase, !.thrown = thrown,
                                                    !.onDone = @ + calls]]
    /\ isUploading' = FALSE
    /\ UNCHANGED <<pipeline, projection_state, panel_state>>

\* fetch rejects: catch, finally
UploadNetworkError ==
    \E i \in 1..Len(uploads) :
        /\ uploads[i].phase = "fetching"
        /\ UploadEnds(i, "failed", "network", 0)

\* !response.ok: throw, catch, finally
UploadNotOk ==
    \E i \in 1..Len(uploads) :
        /\ uploads[i].phase = "fetching"
        /\ UploadEnds(i, "failed", "status", 0)

\* response.ok: the call goes on to await response.json()
UploadOk ==
    \E i \in 1..Len(uploads) :
        /\ uploads[i].phase = "fetching"
        /\ uploads' = [uploads EXCEPT ![i] = [@ EXCEPT !.phase = "parsing", !.ok = TRUE]]
        /\ UNCHANGED <<isUploading, pipeline, projection_state, panel_state>>

\* response.json() resolves: onDone(result), finally
UploadParsed ==
    \E i \in 1..Len(uploads) :
        /\ uploads[i].phase = "parsing"
        /\ UploadEnds(i, "done", "", 1)

\* response.json() rejects: catch, finally
UploadJsonError ==
    \E i \in 1..Len(uploads) :
        /\ uploads[i].phase = "parsing"
        /\ UploadEnds(i, "failed", "json", 0)

UploadResponse ==
    UploadNetworkError \/ UploadNotOk \/ UploadOk \/ UploadParsed \/ UploadJsonError

NextUpload == handleFileInput \/ handleDrop \/ UploadResponse

SpecUpload == InitUpload /\ [][NextUpload]_vars

\* Every request is answered or fails in the end.
FairSpecUpload == SpecUpload /\ WF_vars(UploadResponse)

\* C27 as stated: at most one /ingest/file request is in flight at any time,
\* and while isUploading is true no upload is started, through the file
\* input or through a drop.
C27_OneUploadInFlight ==
    /\ [](Cardinality(UploadsInFlight) <= 1)
    /\ [][isUploading => UploadsInFlight' \subseteq UploadsInFlight]_vars

\* What holds of every call of handleFileUpload, whatever its outcome: a file
\* that is not a .txt is refused without a request, and onDone is called at
\* most once and never for a call that failed.
UploadRecordsRight ==
    \A i \in 1..Len(uploads) :
        LET u == uploads[i]
        IN  /\ u.phase = "refused" <=> ~EndsWith(u.name, ".txt")
            /\ u.phase = "refused" => (~u.ok /\ u.onDone = 0)
            /\ u.onDone <= 1
            /\ u.phase \in {"fetching", "parsing", "failed"} => u.onDone = 0
            /\ u.phase = "failed" => u.thrown \in {"network", "status", "json"}

\* The steps of a call: isUploading is TRUE once the request is sent, FALSE
\* once the call has ended, and untouched when the file is refused.
UploadStepsRight ==
    [][/\ \A i \in UploadsInFlight : i \notin UploadsInFlight' => isUploading' = FALSE
       /\ Len(uploads') > Len(uploads) =>
              LET u == uploads'[Len(uploads')]
              IN  /\ u.phase \in {"fetching", "refused"}
                  /\ u.phase = "fetching" => isUploading' = TRUE
                  /\ u.phase = "refused" => isUploading' = isUploading]_vars

\* Every call whose request was sent ends.
UploadsEnd ==
    \A i \in 1..MaxUploads :
        (i \in UploadsInFlight) ~>
            (i <= Len(uploads) /\ uploads[i].phase \in {"done", "failed"})

\* C28 as stated: every attempt ends with isUploading false, after a success,
\* a non-OK response and a thrown error alike; onDone is called exactly once
\* for an OK response and never for a failed attempt; a file that is not a
\* .txt starts no request and leaves isUploading unchanged.
C28_UploadAttemptEnds ==
    /\ [](/\ UploadRecordsRight
          /\ \A i \in 1..Len(uploads) :
                 (uploads[i].phase \in {"done", "failed"} /\ uploads[i].ok)
                     => uploads[i].onDone = 1)
    /\ UploadStepsRight
    /\ UploadsEnd

\* C28: as above, with onDone called exactly once for an OK response whose
\* body was read as JSON, and not at all when reading the body failed.
C28_UploadAttemptEndsParsed ==
    /\ [](/\ UploadRecordsRight
          /\ \A i \in 1..Len(uploads) :
                 /\ uploads[i].phase = "done" =>
                        (uploads[i].ok /\ uploads[i].thrown = "" /\ uploads[i].onDone = 1)
                 /\ (uploads[i].phase = "failed" /\ uploads[i].ok) =>
                        (uploads[i].thrown = "json" /\ uploads[i].onDone = 0))
    /\ UploadStepsRight
    /\ UploadsEnd

\* A refused file, a successful upload and one whose body could not be read
\* have all ended.
C28_Witness ==
    /\ ~isUploading
    /\ UploadsInFlight = {}
    /\ \E i, j, k \in 1..Len(uploads) :
           /\ uploads[i].phase = "refused"
           /\ uploads[j].phase = "done" /\ uploads[j].onDone = 1
           /\ uploads[k].phase = "failed" /\ uploads[k].thrown = "json"

\* A second request was started by a drop while one was in flight.
C27_TwoInFlight ==
    /\ Cardinality(UploadsInFlight) = 2
    /\ \E i \in UploadsInFlight : uploads[i].via = "drop"

(***************************************************************************)
(* The Projection component.                                               *)
(***************************************************************************)
\* The ids a collection can have; Home sets 1, then the id of a collection it
\* created.
Collections == 1..MaxCollection

\* The calls of fetchProjection that await fetch or response.json().
FetchesInFlight == {i \in 1..Len(fetches) : fetches[i].phase \in {"fetching", "parsing"}}

InitProjection == PipelineIdle /\ FrontendIdle

\* fetchProjection up to its await: the request is for the collectionId of the
\* render that made the closure.
fetchProjection(c) ==
    /\ Len(fetches) < MaxFetches
    /\ isLoading' = TRUE
    /\ error' = FALSE
    /\ fetches' = Append(fetches, [collection |-> c, phase |-> "fetching"])
    /\ UNCHANGED points

\* Home calls setCollectionId(c); the effect on [collectionId] runs after the
\* render and calls fetchProjection.
ChangeCollection ==
    /\ \E c \in Collections :
           /\ c # collectionId
           /\ collectionId' = c
           /\ fetchProjection(c)
    /\ UNCHANGED <<pipeline, upload_state, panel_state>>

\* The Retry button, rendered when error is set and isLoading is not.
Retry ==
    /\ error
    /\ ~isLoading
    /\ fetchProjection(collectionId)
    /\ UNCHANGED <<collectionId, pipeline, upload_state, panel_state>>

\* catch (err) { setError(...) } finally { setIsLoading(false) }
ProjectionFails(i) ==
    /\ fetches' = [fetches EXCEPT ![i].phase = "failed"]
    /\ error' = TRUE
    /\ isLoading' = FALSE
    /\ UNCHANGED <<points, collectionId, pipeline, upload_state, panel_state>>

\* fetch rejects, or the response is not OK
ProjectionError ==
    \E i \in 1..Len(fetches) :
        /\ fetches[i].phase = "fetching"
        /\ ProjectionFails(i)

\* response.ok: await response.json()
ProjectionOk ==
    \E i \in 1..Len(fetches) :
        /\ fetches[i].phase = "fetching"
        /\ fetches' = [fetches EXCEPT ![i].phase = "parsing"]
        /\ UNCHANGED <<collectionId, points, isLoading, error, pipeline, upload_state,
                       panel_state>>

\* setPoints(data.points || []), then finally { setIsLoading(false) }
ProjectionParsed ==
    \E i \in 1..Len(fetches) :
        /\ fetches[i].phase = "parsing"
        /\ fetches' = [fetches EXCEPT ![i].phase = "done"]
        /\ points' = fetches[i].collection
        /\ isLoading' = FALSE
        /\ UNCHANGED <<collectionId, error, pipeline, upload_state, panel_state>>

\* response.json() rejects
ProjectionJsonError ==
    \E i \in 1..Len(fetches) :
        /\ fetches[i].phase = "parsing"
        /\ ProjectionFails(i)

NextProjection ==
    \/ ChangeCollection \/ Retry
    \/ ProjectionError \/ ProjectionOk \/ ProjectionParsed \/ ProjectionJsonError

SpecProjection == InitProjection /\ [][NextProjection]_vars

\* The last call of fetchProjection made for the collection c, 0 if none.
LastFetchFor(c) ==
    LET made == {i \in 1..Len(fetches) : fetches[i].collection = c}
    IN  IF made = {} THEN 0 ELSE CHOOSE i \in made : \A j \in made : j <= i

\* C29 as stated: with no fetch in flight and the last fetch for the current
\* collectionId succeeded, the points displayed are those of the current
\* collectionId; isLoading is true whenever a fetch is in flight; and the
\* response to a fetch for an earlier collectionId neither replaces the
\* points nor clears isLoading while a newer fetch is in flight.
C29_PointsOfCurrentCollection ==
    /\ [](/\ (/\ FetchesInFlight = {}
              /\ LastFetchFor(collectionId) # 0
              /\ fetches[LastFetchFor(collectionId)].phase = "done")
             => points = collectionId
          /\ FetchesInFlight # {} => isLoading)
    /\ [][\A i \in FetchesInFlight :
              (i \notin FetchesInFlight' /\ fetches[i].collection # collectionId)
                  => /\ points' = points
                     /\ FetchesInFlight' # {} => isLoading' = isLoading]_vars

\* The points of a collection that is no longer the current one are shown
\* although the current one was fetched with success.
C29_StalePoints ==
    /\ FetchesInFlight = {}
    /\ LastFetchFor(collectionId) # 0
    /\ fetches[LastFetchFor(collectionId)].phase = "done"
    /\ points # collectionId

(***************************************************************************)
(* QueryPanel and RAGPanel: handleSearch and handleRAGQuery are the same   *)
(* handler over query, results / result and isSearching / isProcessing.    *)
(***************************************************************************)
\* What the user types into the query input.
PanelTexts == {"", "   ", " auth "}

SearchesInFlight(p) ==
    {i \in 1..Len(searches[p]) : searches[p][i].phase \in {"fetching", "parsing"}}

InitPanel == PipelineIdle /\ FrontendIdle

\* onChange of the input, which is rendered with disabled={isSearching}
SetQuery ==
    \E p \in Panels, text \in PanelTexts :
        /\ ~isSearching[p]
        /\ text # typed[p]
        /\ typed' = [typed EXCEPT ![p] = text]
        /\ UNCHANGED <<results, isSearching, searches, pipeline, upload_state,
                       projection_state>>

\* RAGPanel's example questions: onClick={() => setQuery(example)}, on buttons
\* that stay enabled while an answer is generated.
SetExample ==
    /\ typed["RAGPanel"] # "auth"
    /\ typed' = [typed EXCEPT !["RAGPanel"] = "auth"]
    /\ UNCHANGED <<results, isSearching, searches, pipeline, upload_state,
                   projection_state>>

\* handleSearch / handleRAGQuery up to the await, called from the button or
\* from Enter in the input, both disabled while a search runs:
\* if (!query.trim()) return; setIsSearching(true); fetch(...)
handleSearch ==
    \E p \in Panels :
        /\ ~isSearching[p]
        /\ Len(searches[p]) < MaxSearches
        /\ IF Trim(typed[p]) = ""
           THEN /\ searches' = [searches EXCEPT ![p] =
                                    Append(@, [text |-> typed[p], phase |-> "ignored", thrown |-> ""])]
                /\ UNCHANGED isSearching
           ELSE /\ searches' = [searches EXCEPT ![p] =
                                    Append(@, [text |-> Trim(typed[p]), phase |-> "fetching", thrown |-> ""])]
                /\ isSearching' = [isSearching EXCEPT ![p] = TRUE]
        /\ UNCHANGED <<typed, results, pipeline, upload_state, projection_state>>

\* A failed search that empties the list of results.
SearchFailsClearingResults(p, i, thrown) ==
    /\ searches' = [searches EXCEPT ![p][i].phase = "failed", ![p][i].thrown = thrown]
    /\ isSearching' = [isSearching EXCEPT ![p] = FALSE]
    /\ results' = [results EXCEPT ![p] = 0]
    /\ UNCHANGED <<typed, pipeline, upload_state, projection_state>>

\* catch: alert("Search failed. Please try again."); finally: setIsSearching(false)
SearchFails(p, i, thrown) ==
    /\ searches' = [searches EXCEPT ![p][i].phase = "failed", ![p][i].thrown = thrown]
    /\ isSearching' = [isSearching EXCEPT ![p] = FALSE]
    /\ UNCHANGED <<typed, results, pipeline, upload_state, projection_state>>

\* fetch rejects, or the response is not OK
SearchError ==
    \E p \in Panels : \E i \in 1..Len(searches[p]) :
        /\ searches[p][i].phase = "fetching"
        /\ SearchFails(p, i, "request")

\* response.ok: await response.json()
SearchOk ==
    \E p \in Panels : \E i \in 1..Len(searches[p]) :
        /\ searches[p][i].phase = "fetching"
        /\ searches' = [searches EXCEPT ![p][i].phase = "parsing"]
        /\ UNCHANGED <<typed, results, isSearching, pipeline, upload_state,
                       projection_state>>

\* setResults(searchResults) / setResult(ragResult), then finally
SearchParsed ==
    \E p \in Panels : \E i \in 1..Len(searches[p]) :
        /\ searches[p][i].phase = "parsing"
        /\ searches' = [searches EXCEPT ![p][i].phase = "done"]
        /\ results' = [results EXCEPT ![p] = i]
        /\ isSearching' = [isSearching EXCEPT ![p] = FALSE]
        /\ UNCHANGED <<typed, pipeline, upload_state, projection_state>>

\* response.json() rejects
SearchJsonError ==
    \E p \in Panels : \E i \in 1..Len(searches[p]) :
        /\ searches[p][i].phase = "parsing"
        /\ SearchFails(p, i, "json")

NextPanel ==
    \/ SetQuery \/ SetExample \/ handleSearch
    \/ SearchError \/ SearchOk \/ SearchParsed \/ SearchJsonError

SpecPanel == InitPanel /\ [][NextPanel]_vars

\* C30: in both panels a query that is empty or only whitespace sends no
\* request and changes no state; a search that fails leaves the results
\* displayed before unchanged; and when a search attempt ends, with success
\* or failure, isSearching (isProcessing) is false.
C30_SearchFrame ==
    /\ [](\A p \in Panels :
              /\ \A i \in 1..Len(searches[p]) :
                     /\ searches[p][i].phase = "ignored" <=> Trim(searches[p][i].text) = ""
                     /\ searches[p][i].phase # "ignored" => searches[p][i].text = "auth"
              /\ SearchesInFlight(p) = {} => ~isSearching[p])
    /\ [][\A p \in Panels :
              /\ (/\ Len(searches'[p]) > Len(searches[p])
                  /\ searches'[p][Len(searches'[p])].phase = "ignored")
                 => UNCHANGED <<typed, results, isSearching>>
              /\ \A i \in SearchesInFlight(p) :
                     /\ searches'[p][i].phase = "failed" => results'[p] = results[p]
                     /\ i \notin SearchesInFlight(p)' => ~isSearching'[p]]_vars

\* In one panel a search failed after an earlier one had filled the results,
\* which are still displayed; in the other a blank query was ignored.
C30_Witness ==
    \E p \in Panels, q \in Panels :
        /\ Len(searches[p]) = 2
        /\ searches[p][1].phase = "done"
        /\ searches[p][2].phase = "failed"
        /\ results[p] = 1
        /\ ~isSearching[p]
        /\ q # p
        /\ Len(searches[q]) > 0
        /\ searches[q][1].phase = "ignored"
        /\ results[q] = 0
====
